---- MODULE Spec2Model ----
(***************************************************************************)
(* Queue engine of src/routes/queue.js (the router that starts at line     *)
(* 990): enqueue, restructure-queue, queue-action (with undo), set-break,  *)
(* resume-break and update-rating, for one business (vendorId).            *)
(*                                                                         *)
(* The Queue collection is the sequence `queues` in insertion order; the   *)
(* index of an entry is its _id, and also the order of its joiningTime and *)
(* createdAt.  A createdAt window [startTime, endTime] is therefore a      *)
(* range of indices.                                                       *)
(***************************************************************************)
EXTENDS Integers, Sequences, FiniteSets, TLC

\* ---------------------------------------------------------------- bounds
MaxItems == 2        \* line items of one enqueue request
MaxTxns == 2         \* enqueue transactions open at the same time
MaxQueueEnq == 2     \* entries inserted under SpecEnq
MaxOpsEnq == 4       \* requests handled under SpecEnq
MaxQueue == 3        \* entries inserted under Spec
MaxOps == 5          \* requests handled under Spec
MaxNow == 5          \* the clock stops advancing at this minute
MaxQueueBal == 3     \* entries inserted under SpecBal
MaxOpsBal == 6       \* requests handled under SpecBal
MaxQueueLane == 3    \* entries inserted under SpecLane
MaxOpsLane == 5      \* requests handled under SpecLane
MaxQueueUndo == 1    \* entries inserted under SpecUndo
MaxOpsUndo == 4      \* requests handled under SpecUndo
MaxNowUndo == 6      \* the last minute of the clock under SpecUndo
MaxQueueRate == 1    \* entries inserted under SpecRate
MaxOpsRate == 6      \* requests handled under SpecRate
MaxQueuePush == 2    \* entries inserted under SpecPush
MaxOpsPush == 5      \* requests handled under SpecPush
MaxQueueSwap == 3    \* entries inserted under SpecSwap
MaxOpsSwap == 7      \* requests handled under SpecSwap
MaxNowSwap == 1      \* the last minute of the clock under SpecSwap

\* ------------------------------------------------------------- the data
HelperIds == {"H1", "H2"}
ServiceIds == {"S1", "S2"}
UserIds == {"U1", "U2"}
OwnerId == "O"
NoId == "null"

\* RateCard.duration of the two services, in minutes
duration == [s \in ServiceIds |-> IF s = "S1" THEN 30 ELSE 20]

\* 5 * 60 * 1000 ms, in minutes
UndoWindow == 5

LiveStatus == {"in_queue", "hold", "skipped"}

VARIABLES
  vendor,        \* the owner's Vendor document: active, connectedHelpers
  queues,        \* the Queue collection
  enqueueTxns,   \* open /enqueue transactions: the entries each will insert
  triggers,      \* restructure requests posted by a handler, not yet run
  ratingWrites,  \* /update-rating requests between findById and save
  now,           \* Date.now(), in minutes
  ops,           \* requests handled so far
  resp,          \* the response of the last finished request
  push,          \* the push message the last handler step posted to exp.host
  expoUp         \* whether a post to exp.host succeeds

vars == <<vendor, queues, enqueueTxns, triggers, ratingWrites, now, ops, resp, push, expoUp>>

\* ------------------------------------------------------- Array.prototype.sort
\* Node's sort for arrays of fewer than 32 elements: the first run is
\* detected (and reversed when descending), the rest is inserted by binary
\* search.  lt is the set of pairs <<a, b>> with comparator(a, b) < 0.
RECURSIVE CountRun(_, _, _, _)
CountRun(arr, lt, desc, idx) ==
  IF idx > Len(arr) THEN idx - 1
  ELSE LET neg == <<arr[idx], arr[idx - 1]>> \in lt
       IN IF (desc /\ ~neg) \/ (~desc /\ neg) THEN idx - 1
          ELSE CountRun(arr, lt, desc, idx + 1)

RECURSIVE BinarySearch(_, _, _, _, _)
BinarySearch(arr, lt, pivot, left, right) ==
  IF left >= right THEN left
  ELSE LET mid == left + ((right - left) \div 2)
       IN IF <<pivot, arr[mid]>> \in lt
          THEN BinarySearch(arr, lt, pivot, left, mid)
          ELSE BinarySearch(arr, lt, pivot, mid + 1, right)

RECURSIVE BinaryInsertionSort(_, _, _)
BinaryInsertionSort(arr, lt, start) ==
  IF start > Len(arr) THEN arr
  ELSE LET pivot == arr[start]
           pos == BinarySearch(arr, lt, pivot, 1, start)
           moved == [p \in 1..Len(arr) |->
                       IF p < pos THEN arr[p]
                       ELSE IF p = pos THEN pivot
                       ELSE IF p <= start THEN arr[p - 1]
                       ELSE arr[p]]
       IN BinaryInsertionSort(moved, lt, start + 1)

ArraySort(arr, lt) ==
  IF Len(arr) < 2 THEN arr
  ELSE LET desc == <<arr[2], arr[1]>> \in lt
           run == CountRun(arr, lt, desc, 3)
           made == [p \in 1..Len(arr) |->
                      IF desc /\ p <= run THEN arr[run + 1 - p] ELSE arr[p]]
       IN BinaryInsertionSort(made, lt, run + 1)

\* ------------------------------------------------------------- helpers
\* mutant of activeHelpers: a helper on break still counts
activeHelpersOnBreakToo(v) ==
  SelectSeq(v.connectedHelpers, LAMBDA ch : ch.status = "accepted")

\* vendor.connectedHelpers.filter(ch => ch.status === "accepted" && ch.active)
activeHelpers(v) ==
  SelectSeq(v.connectedHelpers, LAMBDA ch : ch.status = "accepted" /\ ch.active)

\* Queue.countDocuments({vendorId, helperId, status: {$in: [...]}})
countDocuments(qs, h) ==
  Cardinality({i \in 1..Len(qs) : qs[i].helperId = h /\ qs[i].status \in LiveStatus})

\* -------------------------------------------------------------- /enqueue
\* One line item: the helper it is given, or NoId when the item throws.
selectedHelperId(qs, v, item) ==
  IF item.preference = "SPECIFIC" /\ item.helperId # NoId
  THEN IF \E k \in 1..Len(v.connectedHelpers) :
            /\ v.connectedHelpers[k].helperId = item.helperId
            /\ v.connectedHelpers[k].status = "accepted"
            /\ v.connectedHelpers[k].active
       THEN item.helperId
       ELSE NoId
  ELSE LET cap == SelectSeq(activeHelpers(v),
                     LAMBDA ch : item.serviceId \in ch.associatedServices)
           waitTime(k) == countDocuments(qs, cap[k].helperId) * duration[item.serviceId]
       IN IF cap = <<>> THEN NoId
          ELSE cap[CHOOSE k \in 1..Len(cap) :
                     /\ \A j \in 1..Len(cap) : waitTime(k) <= waitTime(j)
                     /\ \A j \in 1..(k - 1) : waitTime(j) > waitTime(k)].helperId

\* new Queue({...}) of one line item, from the transaction's reads
queueEntry(qs, v, item, userId, userType) ==
  LET h == selectedHelperId(qs, v, item)
      queueLength == countDocuments(qs, h)
  IN [userId |-> IF userType = "manual" THEN NoId ELSE userId,
      userType |-> userType,
      helperId |-> h,
      serviceId |-> item.serviceId,
      preference |-> item.preference,
      joiningPosition |-> queueLength + 1,
      currentPosition |-> queueLength + 1,
      estimatedWait |-> queueLength * duration[item.serviceId],
      status |-> "in_queue",
      updateHistory |-> <<>>,
      rating |-> <<>>]

\* the line items of the requests: "S9" is no RateCard of the business and
\* "H9" no helper of it
EnqLineItems ==
  {[serviceId |-> "S1", preference |-> "SPECIFIC", helperId |-> "H1"],
   [serviceId |-> "S1", preference |-> "SPECIFIC", helperId |-> "H9"],
   [serviceId |-> "S2", preference |-> "SPECIFIC", helperId |-> "H2"],
   [serviceId |-> "S1", preference |-> "ANY", helperId |-> NoId],
   [serviceId |-> "S9", preference |-> "ANY", helperId |-> NoId]}

Requests == UNION {[1..n -> EnqLineItems] : n \in 1..MaxItems}

\* the checks of the handler that throw: vendor, user, and of each line
\* item the service and the helper
enqueueValid(qs, v, services, principal, userType) ==
  /\ v.active
  /\ userType = "normal" => principal \in UserIds
  /\ \A k \in 1..Len(services) :
        /\ services[k].serviceId \in ServiceIds
        /\ selectedHelperId(qs, v, services[k]) # NoId

\* mutant of enqueueResult: a line item that fails is skipped
enqueueResultSkipsInvalid(qs, v, services, principal, userType) ==
  LET valid == SelectSeq(services, LAMBDA item :
                  /\ item.serviceId \in ServiceIds
                  /\ selectedHelperId(qs, v, item) # NoId)
  IN IF v.active /\ (userType = "normal" => principal \in UserIds) /\ valid # <<>>
     THEN [ok |-> TRUE,
           entries |-> [k \in 1..Len(valid) |->
                          queueEntry(qs, v, valid[k], principal, userType)]]
     ELSE [ok |-> FALSE, entries |-> <<>>]

\* what the transaction does: it throws (ok = FALSE) or builds queueEntries
enqueueResult(qs, v, services, principal, userType) ==
  IF enqueueValid(qs, v, services, principal, userType)
  THEN [ok |-> TRUE,
        entries |-> [k \in 1..Len(services) |->
                       queueEntry(qs, v, services[k], principal, userType)]]
  ELSE [ok |-> FALSE, entries |-> <<>>]

\* the last response sent; code 0: the request named is still being handled
response(op, code, updatedCount) ==
  [op |-> op, code |-> code, updatedCount |-> updatedCount]

\* axios.post("https://exp.host/--/api/v2/push/send", ...) of a handler, and
\* the state of the handler's transaction when it is posted: "open" (started,
\* not committed), "committed", or "none" (the handler starts none).  Every
\* registered customer has a pushToken and receives notifications.
noPush == [op |-> "none", session |-> "none", delivered |-> FALSE]
pushed(op, session, up) == [op |-> op, session |-> session, delivered |-> up]

\* queue.userId && queue.userType === "normal"
notified(q) == q.userType = "normal" /\ q.userId # NoId

\* startTransaction .. the loop over services: every read of the handler is
\* made here; the entries are built and kept for insertMany.
EnqueueBegin(services, principal, userType) ==
  LET r == enqueueResult(queues, vendor, services, principal, userType)
  IN /\ r.ok
     /\ enqueueTxns' = Append(enqueueTxns, [items |-> Len(services), entries |-> r.entries])
     /\ resp' = response("enqueue", 0, 0)
     /\ push' = noPush
     /\ UNCHANGED <<vendor, queues, triggers, ratingWrites, now, expoUp>>

\* a check throws: abortTransaction, status 500
EnqueueAbort(services, principal, userType) ==
  /\ ~enqueueResult(queues, vendor, services, principal, userType).ok
  /\ resp' = response("enqueue", 500, 0)
  /\ push' = noPush
  /\ UNCHANGED <<vendor, queues, enqueueTxns, triggers, ratingWrites, now, expoUp>>

\* insertMany + commitTransaction, status 201
EnqueueCommit(t) ==
  /\ t \in 1..Len(enqueueTxns)
  /\ queues' = queues \o enqueueTxns[t].entries
  /\ enqueueTxns' = [k \in 1..(Len(enqueueTxns) - 1) |->
                        IF k < t THEN enqueueTxns[k] ELSE enqueueTxns[k + 1]]
  /\ resp' = response("enqueue", 201, 0)
  /\ push' = noPush
  /\ UNCHANGED <<vendor, triggers, ratingWrites, now, expoUp>>

\* the whole handler with no other request in between
Enqueue(services, principal, userType) ==
  LET r == enqueueResult(queues, vendor, services, principal, userType)
  IN /\ queues' = queues \o r.entries
     /\ resp' = response("enqueue", IF r.ok THEN 201 ELSE 500, 0)
     /\ push' = noPush
     /\ UNCHANGED <<vendor, enqueueTxns, triggers, ratingWrites, now, expoUp>>

\* ---------------------------------------------------- /restructure-queue
isServing(q) == q.currentPosition = 1 /\ q.status = "in_queue"

\* the loop over flexibleQueues: capableHelpers is sorted in place by bucket
\* length before each push, and the first of it takes the entry
RECURSIVE balance(_, _, _, _)
balance(flexibleQueues, k, capableHelpers, helperAssignments) ==
  IF k > Len(flexibleQueues) THEN helperAssignments
  ELSE LET sortedHelpers == ArraySort(capableHelpers,
               {pr \in HelperIds \X HelperIds :
                  Len(helperAssignments[pr[1]]) - Len(helperAssignments[pr[2]]) < 0})
           targetHelper == sortedHelpers[1]
       IN balance(flexibleQueues, k + 1, sortedHelpers,
                  [helperAssignments EXCEPT ![targetHelper] = Append(@, flexibleQueues[k])])

\* helperAssignments of one service group: helperId -> ids in push order
helperAssignmentsOf(qs, serviceQueues, capableHelpers) ==
  LET capable == {capableHelpers[k] : k \in 1..Len(capableHelpers)}
      isHelperActive(i) == qs[i].helperId \in capable
      currentlyServing == SelectSeq(serviceQueues, LAMBDA i : isServing(qs[i]))
      specificPreference == SelectSeq(serviceQueues, LAMBDA i :
          /\ ~isServing(qs[i])
          /\ qs[i].preference = "SPECIFIC" /\ isHelperActive(i))
      holdQueues == SelectSeq(serviceQueues, LAMBDA i :
          /\ ~isServing(qs[i])
          /\ qs[i].preference # "SPECIFIC" /\ qs[i].status = "hold")
      flexibleQueues == SelectSeq(serviceQueues, LAMBDA i :
          /\ ~isServing(qs[i])
          /\ \/ qs[i].preference = "SPECIFIC" /\ ~isHelperActive(i)
             \/ qs[i].preference # "SPECIFIC" /\ qs[i].status # "hold")
      target(i) == IF isHelperActive(i) THEN qs[i].helperId ELSE capableHelpers[1]
      fixed == [h \in capable |->
                  SelectSeq(currentlyServing, LAMBDA i : target(i) = h)
                    \o SelectSeq(specificPreference, LAMBDA i : qs[i].helperId = h)
                    \o SelectSeq(holdQueues, LAMBDA i : target(i) = h)]
  IN balance(flexibleQueues, 1, capableHelpers, fixed)

\* helperQueues.sort(...): serving first, in_queue before the rest, then
\* joiningTime
sortedHelperQueues(qs, helperQueues) ==
  LET ids == {helperQueues[k] : k \in 1..Len(helperQueues)}
  IN ArraySort(helperQueues,
       {pr \in ids \X ids :
          LET a == qs[pr[1]]
              b == qs[pr[2]]
          IN IF isServing(a) THEN TRUE
             ELSE IF isServing(b) THEN FALSE
             ELSE IF a.status = "in_queue" /\ b.status # "in_queue" THEN TRUE
             ELSE IF b.status = "in_queue" /\ a.status # "in_queue" THEN FALSE
             ELSE pr[1] - pr[2] < 0})

historyEvent(action, source, t, previousPosition, newPosition, addedTime, estimatedWait, helper) ==
  [action |-> action, source |-> source, timestamp |-> t,
   previousPosition |-> previousPosition, newPosition |-> newPosition,
   addedTime |-> addedTime, estimatedWait |-> estimatedWait,
   newlyAssignedHelperId |-> helper]

\* mutant of restructuredEntry: the update also writes joiningPosition
restructuredEntryRejoined(q, helperId, newPosition, t) ==
  LET newEstimatedWait == (newPosition - 1) * duration[q.serviceId]
  IN [q EXCEPT !.helperId = helperId,
               !.joiningPosition = newPosition,
               !.currentPosition = newPosition,
               !.estimatedWait = newEstimatedWait,
               !.updateHistory = Append(@,
                  historyEvent("edit", "vendor", t, q.currentPosition, newPosition,
                               0, newEstimatedWait,
                               IF helperId # q.helperId THEN helperId ELSE NoId))]

\* the entry after the position update of its bucket
restructuredEntry(q, helperId, newPosition, t) ==
  LET newEstimatedWait == (newPosition - 1) * duration[q.serviceId]
      hasChanges == \/ q.currentPosition # newPosition
                    \/ q.helperId # helperId
                    \/ q.estimatedWait # newEstimatedWait
  IN IF ~hasChanges THEN q
     ELSE [q EXCEPT !.helperId = helperId,
                    !.currentPosition = newPosition,
                    !.estimatedWait = newEstimatedWait,
                    !.updateHistory = Append(@,
                       historyEvent("edit", "vendor", t, q.currentPosition, newPosition,
                                    0, newEstimatedWait,
                                    IF helperId # q.helperId THEN helperId ELSE NoId))]

\* the Queue collection after the service groups of allQueues were processed
restructuredQueues(qs, v, allQueues, t) ==
  LET capableHelpers(s) ==
        LET cap == SelectSeq(activeHelpers(v), LAMBDA ch : s \in ch.associatedServices)
        IN [k \in 1..Len(cap) |-> cap[k].helperId]
      serviceQueues(s) == SelectSeq(allQueues, LAMBDA i : qs[i].serviceId = s)
      helperAssignments(s) == helperAssignmentsOf(qs, serviceQueues(s), capableHelpers(s))
      placed(i, s, h) ==
        /\ capableHelpers(s) # <<>>
        /\ h \in DOMAIN helperAssignments(s)
        /\ \E p \in 1..Len(helperAssignments(s)[h]) : helperAssignments(s)[h][p] = i
      positionOf(i, s, h) ==
        LET sorted == sortedHelperQueues(qs, helperAssignments(s)[h])
        IN CHOOSE p \in 1..Len(sorted) : sorted[p] = i
  IN [i \in 1..Len(qs) |->
        LET s == qs[i].serviceId
        IN IF \E k \in 1..Len(allQueues) : allQueues[k] = i
           THEN IF \E h \in HelperIds : placed(i, s, h)
                THEN LET h == CHOOSE hh \in HelperIds : placed(i, s, hh)
                     IN restructuredEntry(qs[i], h, positionOf(i, s, h), t)
                ELSE qs[i]
           ELSE qs[i]]

\* Queue.find({status live, createdAt in [startTime, endTime]}).sort(joiningTime)
allQueuesIn(qs, lo, hi) ==
  SelectSeq([i \in 1..Len(qs) |-> i],
            LAMBDA i : i >= lo /\ i <= hi /\ qs[i].status \in LiveStatus)

updatedCountOf(qs, qs2) ==
  Cardinality({i \in 1..Len(qs) : qs2[i] # qs[i]})

\* the handler: [code, queues, updatedCount]
restructure(qs, v, lo, hi, t) ==
  IF ~v.active
  THEN [code |-> 500, queues |-> qs, updatedCount |-> 0]
  ELSE IF activeHelpers(v) = <<>>
  THEN [code |-> 400, queues |-> qs, updatedCount |-> 0]
  ELSE IF allQueuesIn(qs, lo, hi) = <<>>
  THEN [code |-> 200, queues |-> qs, updatedCount |-> 0]
  ELSE LET qs2 == restructuredQueues(qs, v, allQueuesIn(qs, lo, hi), t)
       IN [code |-> 200, queues |-> qs2, updatedCount |-> updatedCountOf(qs, qs2)]

\* positionChanged || helperChanged || waitTimeChanged of a saved entry
significant(q, q2) ==
  /\ q2 # q
  /\ \/ q2.currentPosition # q.currentPosition
     \/ q2.helperId # q.helperId
     \/ q2.estimatedWait - q.estimatedWait >= 5
     \/ q.estimatedWait - q2.estimatedWait >= 5

\* the push of the handler, r its result: "Queue Paused" is posted inside the
\* transaction, before commitTransaction; the position updates are posted
\* after commitTransaction, inside try/catch
restructurePush(qs, lo, hi, r, up) ==
  IF r.code = 400
  THEN IF \E k \in 1..Len(allQueuesIn(qs, lo, hi)) : notified(qs[allQueuesIn(qs, lo, hi)[k]])
       THEN pushed("restructure", "open", up) ELSE noPush
  ELSE IF r.code = 200
          /\ \E i \in 1..Len(qs) : notified(qs[i]) /\ significant(qs[i], r.queues[i])
  THEN pushed("restructure", "committed", up)
  ELSE noPush

\* the status answered: a "Queue Paused" post that fails throws, and the
\* catch aborts and answers 500
restructureCode(r, p) ==
  IF p.op # "none" /\ p.session = "open" /\ ~p.delivered THEN 500 ELSE r.code

\* POST /restructure-queue by a client
Restructure(lo, hi) ==
  \E r \in {restructure(queues, vendor, lo, hi, now)} :
  \E p \in {restructurePush(queues, lo, hi, r, expoUp)} :
     /\ queues' = r.queues
     /\ push' = p
     /\ resp' = response("restructure", restructureCode(r, p), r.updatedCount)
     /\ UNCHANGED <<vendor, enqueueTxns, triggers, ratingWrites, now, expoUp>>

\* The restructure a handler posts to the own host with startTime = new
\* Date(): it selects the entries created from then on.  The handler answers
\* after it: set-break and resume-break with 500 when the post fails,
\* queue-action with 200 whatever the post returns.
RunTrigger(tr) ==
  \E r \in {restructure(queues, vendor, tr.startIndex, Len(queues), now)} :
  \E p \in {restructurePush(queues, tr.startIndex, Len(queues), r, expoUp)} :
     /\ tr \in triggers
     /\ triggers' = triggers \ {tr}
     /\ queues' = r.queues
     /\ push' = p
     /\ resp' = response(tr.from,
                         IF tr.from = "queue-action" \/ restructureCode(r, p) = 200
                         THEN 200 ELSE 500, 0)
     /\ UNCHANGED <<vendor, enqueueTxns, ratingWrites, now, expoUp>>

trigger(from) == [from |-> from, startIndex |-> Len(queues) + 1]

\* --------------------------------------------------------- /queue-action
Actions == {"skip", "hold", "remove", "next", "add_time", "unhold", "undo"}

isUser(q, principal) == q.userId # NoId /\ q.userId = principal
isOwner(principal) == principal = OwnerId
isHelper(v, principal) ==
  \E k \in 1..Len(v.connectedHelpers) :
     /\ v.connectedHelpers[k].helperId = principal
     /\ v.connectedHelpers[k].status = "accepted"
     /\ v.connectedHelpers[k].active

\* mutant of authorized: a customer may apply any action to the own entry
authorizedOwnAny(q, v, action, principal) ==
  isUser(q, principal) \/ isOwner(principal) \/ isHelper(v, principal)

authorized(q, v, action, principal) ==
  \/ isUser(q, principal) /\ action = "remove"
  \/ isOwner(principal) \/ isHelper(v, principal)

sourceOf(q, principal) == IF isUser(q, principal) THEN "user" ELSE "vendor"

\* Queue.findOne({helperId, currentPosition > cur, status: "in_queue"})
\*   .sort({currentPosition: 1}): the documents it may return
nextPersons(qs, id) ==
  LET after == {j \in 1..Len(qs) :
                  /\ qs[j].helperId = qs[id].helperId
                  /\ qs[j].currentPosition > qs[id].currentPosition
                  /\ qs[j].status = "in_queue"}
  IN {j \in after : \A k \in after : qs[j].currentPosition <= qs[k].currentPosition}

\* mutant of recentActions: the edit events of restructure are not looked at
recentActionsButEdit(q, t) ==
  SelectSeq(q.updateHistory,
            LAMBDA h : h.source = "vendor" /\ h.timestamp > t - UndoWindow
                       /\ h.action # "edit")

\* mutant of recentActions: the age of the events is not looked at
recentActionsAnyAge(q, t) ==
  SelectSeq(q.updateHistory, LAMBDA h : h.source = "vendor")

\* mutant of recentActions: the undo events are not looked at
recentActionsButUndo(q, t) ==
  SelectSeq(q.updateHistory,
            LAMBDA h : h.source = "vendor" /\ h.timestamp > t - UndoWindow
                       /\ h.action # "undo")

\* updateHistory.filter(vendor, newer than 5 minutes), last element
recentActions(q, t) ==
  SelectSeq(q.updateHistory,
            LAMBDA h : h.source = "vendor" /\ h.timestamp > t - UndoWindow)

\* Queue.findOne({helperId, currentPosition: previousPosition, status: "in_queue"})
swappedPersons(qs, id, lastAction) ==
  {j \in 1..Len(qs) :
     /\ qs[j].helperId = qs[id].helperId
     /\ qs[j].currentPosition = lastAction.previousPosition
     /\ qs[j].status = "in_queue"}

pushEvent(q, ev) == [q EXCEPT !.updateHistory = Append(@, ev)]

\* the entry after a status action (hold, unhold, remove, next and their undo)
withStatus(q, status, action, source, t) ==
  pushEvent([q EXCEPT !.status = status],
            historyEvent(action, source, t, q.currentPosition, q.currentPosition,
                         0, q.estimatedWait, NoId))

skipped(qs, id, other, source, t) ==
  LET queue == qs[id]
      nextPerson == qs[other]
      tempPosition == queue.currentPosition
      d == duration[queue.serviceId]
      q2 == [queue EXCEPT !.currentPosition = nextPerson.currentPosition,
                          !.estimatedWait = (nextPerson.currentPosition - 1) * d]
      n2 == [nextPerson EXCEPT !.currentPosition = tempPosition,
                               !.estimatedWait = (tempPosition - 1) * d]
  IN [qs EXCEPT
        ![id] = pushEvent(q2, historyEvent("skip", source, t, tempPosition,
                                           q2.currentPosition, 0, q2.estimatedWait, NoId)),
        ![other] = pushEvent(n2, historyEvent("skip", source, t, n2.currentPosition,
                                              tempPosition, 0, n2.estimatedWait, NoId))]

\* undo of a skip; swappedPerson may be a second copy of the same document,
\* then both saves push their event and the position stays
skipUndone(qs, id, other, lastAction, source, t) ==
  LET queue == qs[id]
      swappedPerson == qs[other]
      tempPosition == queue.currentPosition
      d == duration[queue.serviceId]
      q2 == [queue EXCEPT !.currentPosition = lastAction.previousPosition,
                          !.estimatedWait = (lastAction.previousPosition - 1) * d]
      n2 == [swappedPerson EXCEPT !.currentPosition = tempPosition,
                                  !.estimatedWait = (tempPosition - 1) * d]
      qEvent == historyEvent("undo", source, t, tempPosition, q2.currentPosition,
                             0, q2.estimatedWait, NoId)
      nEvent == historyEvent("undo", source, t, n2.currentPosition, tempPosition,
                             0, n2.estimatedWait, NoId)
  IN IF other = id
     THEN [qs EXCEPT ![id] = pushEvent(pushEvent(q2, nEvent), qEvent)]
     ELSE [qs EXCEPT ![id] = pushEvent(q2, qEvent), ![other] = pushEvent(n2, nEvent)]

noChange(qs) == [code |-> 500, queues |-> qs, triggered |-> FALSE]
done(qs, id, q, triggered) ==
  [code |-> 200, queues |-> [qs EXCEPT ![id] = q], triggered |-> triggered]

undo(qs, id, other, source, t) ==
  LET queue == qs[id]
      recent == recentActions(queue, t)
      lastAction == recent[Len(recent)]
  IN IF source = "user" \/ recent = <<>> THEN noChange(qs)
     ELSE IF lastAction.action = "skip"
     THEN IF other \in swappedPersons(qs, id, lastAction)
          THEN [code |-> 200, triggered |-> FALSE,
                queues |-> skipUndone(qs, id, other, lastAction, source, t)]
          ELSE noChange(qs)
     ELSE IF lastAction.action \in {"hold", "remove", "next"}
     THEN done(qs, id, withStatus(queue, "in_queue", "undo", source, t), TRUE)
     ELSE IF lastAction.action = "unhold"
     THEN done(qs, id, withStatus(queue, "hold", "undo", source, t), TRUE)
     ELSE IF lastAction.action = "add_time"
     THEN done(qs, id,
               pushEvent([queue EXCEPT !.estimatedWait = @ - lastAction.addedTime],
                         historyEvent("undo", source, t, queue.currentPosition,
                                      queue.currentPosition, 0 - lastAction.addedTime,
                                      queue.estimatedWait - lastAction.addedTime, NoId)),
               TRUE)
     ELSE noChange(qs)

\* mutant of nextRejected: the position is not looked at
nextRejectedAnyPosition(queue) == queue.status = "completed"

\* next: only position 1, and not twice
nextRejected(queue) == queue.currentPosition # 1 \/ queue.status = "completed"

\* the transaction of the handler: [code, queues, triggered].  `other` is the
\* document findOne returns for skip and for undo of skip (0: none).
queueAction(qs, v, id, action, addedTime, principal, other, t) ==
  LET queue == qs[id]
      source == sourceOf(queue, principal)
  IN IF queue.status = "removed" \/ ~authorized(queue, v, action, principal)
     THEN noChange(qs)
     ELSE IF action = "skip"
     THEN IF other \in nextPersons(qs, id)
          THEN [code |-> 200, triggered |-> FALSE,
                queues |-> skipped(qs, id, other, source, t)]
          ELSE noChange(qs)
     ELSE IF action = "hold"
     THEN IF queue.status = "hold" THEN noChange(qs)
          ELSE done(qs, id, withStatus(queue, "hold", "hold", source, t), TRUE)
     ELSE IF action = "unhold"
     THEN IF queue.status # "hold" THEN noChange(qs)
          ELSE done(qs, id, withStatus(queue, "in_queue", "unhold", source, t), TRUE)
     ELSE IF action = "remove"
     THEN done(qs, id, withStatus(queue, "removed", "remove", source, t), TRUE)
     ELSE IF action = "next"
     THEN IF nextRejected(queue) THEN noChange(qs)
          ELSE done(qs, id, withStatus(queue, "completed", "next", source, t), TRUE)
     ELSE IF action = "add_time"
     THEN IF addedTime = 0 THEN noChange(qs)
          ELSE done(qs, id,
                    pushEvent([queue EXCEPT !.estimatedWait = @ + addedTime],
                              historyEvent("add_time", source, t, queue.currentPosition,
                                           queue.currentPosition, addedTime,
                                           queue.estimatedWait + addedTime, NoId)),
                    TRUE)
     ELSE undo(qs, id, other, source, t)

\* which `other` a request can meet: a document findOne may return, or none
otherOf(qs, id, action, t) ==
  LET recent == recentActions(qs[id], t)
      found == IF action = "skip" THEN nextPersons(qs, id)
               ELSE IF action = "undo" /\ recent # <<>>
                       /\ recent[Len(recent)].action = "skip"
               THEN swappedPersons(qs, id, recent[Len(recent)])
               ELSE {}
  IN IF found = {} THEN {0} ELSE found

\* sendNotification of the handler, r its result: skip and undo of skip call
\* it before the commitTransaction at the end of the handler, the other
\* branches after their own commitTransaction; a post that fails is logged
queueActionPush(q, r, up) ==
  IF r.code = 200 /\ notified(q)
  THEN pushed("queue-action", IF r.triggered THEN "committed" ELSE "open", up)
  ELSE noPush

QueueAction(id, action, addedTime, principal, other) ==
  LET r == queueAction(queues, vendor, id, action, addedTime, principal, other, now)
  IN /\ id \in 1..Len(queues)
     /\ other \in otherOf(queues, id, action, now)
     /\ queues' = r.queues
     /\ push' = queueActionPush(queues[id], r, expoUp)
     /\ triggers' = IF r.triggered THEN triggers \cup {trigger("queue-action")}
                    ELSE triggers
     /\ resp' = response("queue-action", IF r.triggered THEN 0 ELSE r.code, 0)
     /\ UNCHANGED <<vendor, enqueueTxns, ratingWrites, now, expoUp>>

\* ---------------------------------------------------- /helper-wait-times
\* Queue.countDocuments({vendorId, helperId, serviceId, status: {$in: [...]}})
countDocumentsOfService(qs, h, serviceId) ==
  Cardinality({i \in 1..Len(qs) : /\ qs[i].helperId = h
                                   /\ qs[i].serviceId = serviceId
                                   /\ qs[i].status \in LiveStatus})

\* data.helpers of the answer, one record for each active helper and each
\* RateCard among its associatedServices
helperWaitTimes(qs, v) ==
  UNION {{[helperId |-> helper.helperId,
           serviceId |-> serviceId,
           queueLength |-> countDocumentsOfService(qs, helper.helperId, serviceId),
           estimatedWait |-> countDocumentsOfService(qs, helper.helperId, serviceId)
                               * duration[serviceId]] :
            serviceId \in helper.associatedServices \cap ServiceIds} :
         helper \in {activeHelpers(v)[k] : k \in 1..Len(activeHelpers(v))}}

\* ------------------------------------------------ /set-break, /resume-break
withHelperActive(v, helperId, active) ==
  [v EXCEPT !.connectedHelpers =
     [k \in 1..Len(v.connectedHelpers) |->
        IF v.connectedHelpers[k].helperId = helperId
           /\ v.connectedHelpers[k].status = "accepted"
        THEN [v.connectedHelpers[k] EXCEPT !.active = active]
        ELSE v.connectedHelpers[k]]]

\* the push of the handler to the customers with a live entry (of the helper,
\* or of the business for NoId): posted after vendor.save(), not inside a
\* try/catch of its own
breakPush(qs, op, helperId, up) ==
  IF \E i \in 1..Len(qs) :
        /\ qs[i].status \in LiveStatus /\ notified(qs[i])
        /\ helperId # NoId => qs[i].helperId = helperId
  THEN pushed(op, "none", up) ELSE noPush

pushThrows(p) == p.op # "none" /\ ~p.delivered

\* business-wide (helperId = NoId): vendor.active; no restructure is posted
BusinessBreak(op, active) ==
  LET p == breakPush(queues, op, NoId, expoUp)
  IN /\ vendor' = [vendor EXCEPT !.active = active]
     /\ push' = p
     /\ resp' = response(op, IF pushThrows(p) THEN 500 ELSE 200, 0)
     /\ UNCHANGED <<queues, enqueueTxns, triggers, ratingWrites, now, expoUp>>

\* helper-scoped: the flag is saved, then the restructure is posted
HelperBreak(op, helperId, active) ==
  LET p == breakPush(queues, op, helperId, expoUp)
  IN /\ helperId \in HelperIds
     /\ vendor' = withHelperActive(vendor, helperId, active)
     /\ push' = p
     /\ triggers' = IF pushThrows(p) THEN triggers ELSE triggers \cup {trigger(op)}
     /\ resp' = response(op, IF pushThrows(p) THEN 500 ELSE 0, 0)
     /\ UNCHANGED <<queues, enqueueTxns, ratingWrites, now, expoUp>>

\* helper-scoped, the whole handler with no other request in between: the
\* restructure it posts selects the entries created from now on
HelperBreakAlone(op, helperId, active) ==
  \E p \in {breakPush(queues, op, helperId, expoUp)} :
  \E v \in {withHelperActive(vendor, helperId, active)} :
  \E r \in {restructure(queues, v, Len(queues) + 1, Len(queues), now)} :
     /\ helperId \in HelperIds
     /\ vendor' = v
     /\ queues' = IF pushThrows(p) THEN queues ELSE r.queues
     /\ push' = p
     /\ resp' = response(op, IF ~pushThrows(p) /\ r.code = 200 THEN 200 ELSE 500, 0)
     /\ UNCHANGED <<enqueueTxns, triggers, ratingWrites, now, expoUp>>

\* exp.host becomes unreachable, or reachable again
ExpoChange ==
  /\ expoUp' = ~expoUp
  /\ UNCHANGED <<vendor, queues, enqueueTxns, triggers, ratingWrites, now, resp, push>>

SetBreak(helperId) ==
  IF helperId = NoId THEN BusinessBreak("set-break", FALSE)
  ELSE HelperBreak("set-break", helperId, FALSE)

ResumeBreak(helperId) ==
  IF helperId = NoId THEN BusinessBreak("resume-break", TRUE)
  ELSE HelperBreak("resume-break", helperId, TRUE)

\* ----------------------------------------------------------- /update-rating
\* findById and the checks; the save follows later
UpdateRatingBegin(id, rating) ==
  /\ id \in 1..Len(queues)
  /\ queues[id].status = "completed"
  /\ queues[id].rating = <<>>
  /\ ratingWrites' = ratingWrites \cup {[id |-> id, rating |-> rating]}
  /\ resp' = response("update-rating", 0, 0)
  /\ push' = noPush
  /\ UNCHANGED <<vendor, queues, enqueueTxns, triggers, now, expoUp>>

UpdateRatingReject(id) ==
  /\ id \in 1..Len(queues)
  /\ queues[id].status # "completed" \/ queues[id].rating # <<>>
  /\ resp' = response("update-rating", 400, 0)
  /\ push' = noPush
  /\ UNCHANGED <<vendor, queues, enqueueTxns, triggers, ratingWrites, now, expoUp>>

\* queue.rating = rating; queue.save()
UpdateRatingSave(w) ==
  /\ w \in ratingWrites
  /\ ratingWrites' = ratingWrites \ {w}
  /\ queues' = [queues EXCEPT ![w.id].rating = <<w.rating>>]
  /\ resp' = response("update-rating", 200, 0)
  /\ push' = noPush
  /\ UNCHANGED <<vendor, enqueueTxns, triggers, now, expoUp>>

\* ------------------------------------------------------------------ clock
Tick ==
  /\ now' = now + UndoWindow
  /\ UNCHANGED <<vendor, queues, enqueueTxns, triggers, ratingWrites, resp, push, expoUp>>

\* Date.now() some minutes later
Elapse(minutes) ==
  /\ now' = now + minutes
  /\ UNCHANGED <<vendor, queues, enqueueTxns, triggers, ratingWrites, resp, push, expoUp>>

\* ----------------------------------------------------------------- Init
\* associatedServices of H1 and of H2
HelperSets == {<<{"S1", "S2"}, {"S1", "S2"}>>, <<{"S1", "S2"}, {"S1"}>>}
BothCapable == {<<{"S1", "S2"}, {"S1", "S2"}>>}

connectedHelper(h, svcs) ==
  [helperId |-> h, status |-> "accepted", active |-> TRUE, associatedServices |-> svcs]

\* An active business with two accepted, active helpers, connected in either
\* order, and no queue entry.
InitOf(helperSets) ==
  /\ \E hs \in helperSets, first \in HelperIds :
        vendor = [active |-> TRUE,
                  connectedHelpers |->
                    IF first = "H1"
                    THEN <<connectedHelper("H1", hs[1]), connectedHelper("H2", hs[2])>>
                    ELSE <<connectedHelper("H2", hs[2]), connectedHelper("H1", hs[1])>>]
  /\ queues = <<>>
  /\ enqueueTxns = <<>>
  /\ triggers = {}
  /\ ratingWrites = {}
  /\ now = 0
  /\ ops = 0
  /\ resp = response("none", 0, 0)
  /\ push = noPush
  /\ expoUp = TRUE

Init == InitOf(HelperSets)
InitBothCapable == InitOf(BothCapable)

queuedEntries ==
  LET RECURSIVE Sum(_)
      Sum(k) == IF k = 0 THEN 0 ELSE enqueueTxns[k].items + Sum(k - 1)
  IN Sum(Len(enqueueTxns))

\* one more request handled, below the bound of the specification
Counted(max) == ops < max /\ ops' = ops + 1

\* ------------------------------------------------------ SpecEnq
\* Concurrent /enqueue requests of a customer and of the owner.
EnqBegin ==
  \E services \in Requests, userType \in {"normal", "manual"} :
     /\ Counted(MaxOpsEnq)
     /\ Len(queues) + queuedEntries + Len(services) <= MaxQueueEnq
     /\ Len(enqueueTxns) < MaxTxns
     /\ EnqueueBegin(services, IF userType = "normal" THEN "U1" ELSE OwnerId, userType)

EnqAbort ==
  \E services \in Requests, principal \in {"U1", OwnerId}, userType \in {"normal", "manual"} :
     /\ Counted(MaxOpsEnq)
     /\ EnqueueAbort(services, principal, userType)

EnqCommit == \E t \in 1..MaxTxns : Counted(MaxOpsEnq) /\ EnqueueCommit(t)

NextEnq == EnqBegin \/ EnqAbort \/ EnqCommit

SpecEnq == Init /\ [][NextEnq]_vars

\* ------------------------------------------------------ Spec
\* The action state machine: serial enqueues, every queue-action by the
\* owner, a helper and two customers, restructure over every window start,
\* update-rating, breaks of the helpers and of the business, and the clock.
ActRequests ==
  {<<[serviceId |-> "S1", preference |-> "ANY", helperId |-> NoId]>>,
   <<[serviceId |-> "S1", preference |-> "SPECIFIC", helperId |-> "H1"]>>}

ActPrincipals == {OwnerId, "H2", "U1", "U2"}

ActEnqueue ==
  \E services \in ActRequests, userType \in {"normal", "manual"} :
     /\ Counted(MaxOps)
     /\ Len(queues) < MaxQueue
     /\ Enqueue(services, IF userType = "normal" THEN "U1" ELSE OwnerId, userType)

ActQueueAction ==
  \E id \in 1..MaxQueue, action \in Actions, principal \in ActPrincipals,
     other \in 0..MaxQueue :
     /\ Counted(MaxOps)
     /\ QueueAction(id, action, IF action = "add_time" THEN 5 ELSE 0, principal, other)

ActRunTrigger == \E tr \in triggers : Counted(MaxOps) /\ RunTrigger(tr)

ActRestructure == \E lo \in 1..MaxQueue : Counted(MaxOps) /\ Restructure(lo, Len(queues))

ActUpdateRatingBegin == \E id \in 1..MaxQueue : Counted(MaxOps) /\ UpdateRatingBegin(id, 4)

ActUpdateRatingReject == \E id \in 1..MaxQueue : Counted(MaxOps) /\ UpdateRatingReject(id)

ActUpdateRatingSave == \E w \in ratingWrites : Counted(MaxOps) /\ UpdateRatingSave(w)

ActTick == Counted(MaxOps) /\ now < MaxNow /\ Tick

ActSetBreak == \E h \in HelperIds \cup {NoId} : Counted(MaxOps) /\ SetBreak(h)

ActResumeBreak == \E h \in HelperIds \cup {NoId} : Counted(MaxOps) /\ ResumeBreak(h)

Next ==
  \/ ActEnqueue
  \/ ActQueueAction
  \/ ActRunTrigger
  \/ ActRestructure
  \/ ActUpdateRatingBegin
  \/ ActUpdateRatingReject
  \/ ActUpdateRatingSave
  \/ ActTick
  \/ ActSetBreak
  \/ ActResumeBreak

Spec == InitBothCapable /\ [][Next]_vars

\* ------------------------------------------------------ SpecBal
\* The balancer: a customer joins with preference ANY or names a helper (H2
\* also for a service it may not provide), the owner sends helpers and the
\* business on break and back, and restructure runs over the window that
\* holds every entry.
BalRequests ==
  {<<[serviceId |-> "S1", preference |-> "ANY", helperId |-> NoId]>>,
   <<[serviceId |-> "S1", preference |-> "SPECIFIC", helperId |-> "H1"]>>,
   <<[serviceId |-> "S2", preference |-> "SPECIFIC", helperId |-> "H2"]>>}

BalEnqueue ==
  \E services \in BalRequests :
     /\ Counted(MaxOpsBal)
     /\ Len(queues) < MaxQueueBal
     /\ Enqueue(services, "U1", "normal")

BalSetBreak == \E h \in HelperIds \cup {NoId} : Counted(MaxOpsBal) /\ SetBreak(h)

BalResumeBreak == \E h \in HelperIds \cup {NoId} : Counted(MaxOpsBal) /\ ResumeBreak(h)

BalRunTrigger == \E tr \in triggers : Counted(MaxOpsBal) /\ RunTrigger(tr)

BalRestructure == Counted(MaxOpsBal) /\ Restructure(1, Len(queues))

NextBal ==
  \/ BalEnqueue
  \/ BalSetBreak
  \/ BalResumeBreak
  \/ BalRunTrigger
  \/ BalRestructure

SpecBal == Init /\ [][NextBal]_vars

\* ------------------------------------------------------ SpecLane
\* One lane with entries of two services: the owner adds customers for H1
\* with service S1 or S2 and applies skip, hold, unhold, next and undo.
LaneRequests ==
  {<<[serviceId |-> s, preference |-> "SPECIFIC", helperId |-> "H1"]>> : s \in ServiceIds}

LaneEnqueue ==
  \E services \in LaneRequests :
     /\ Counted(MaxOpsLane)
     /\ Len(queues) < MaxQueueLane
     /\ Enqueue(services, OwnerId, "manual")

LaneQueueAction ==
  \E id \in 1..MaxQueueLane, action \in {"skip", "hold", "unhold", "next", "undo"},
     other \in 0..MaxQueueLane :
     /\ Counted(MaxOpsLane)
     /\ QueueAction(id, action, 0, OwnerId, other)

LaneRunTrigger == \E tr \in triggers : Counted(MaxOpsLane) /\ RunTrigger(tr)

NextLane == LaneEnqueue \/ LaneQueueAction \/ LaneRunTrigger

SpecLane == InitBothCapable /\ [][NextLane]_vars

\* ------------------------------------------------------ SpecUndo
\* The undo window: the owner adds a customer for H1 or customer U1 joins,
\* the owner applies hold, unhold, add_time, remove and undo, U1 applies
\* remove and undo, and the clock moves by one or by four minutes.
UndoRequests ==
  {<<[serviceId |-> "S1", preference |-> "SPECIFIC", helperId |-> "H1"]>>}

UndoEnqueue ==
  \E services \in UndoRequests, userType \in {"normal", "manual"} :
     /\ Counted(MaxOpsUndo)
     /\ Len(queues) < MaxQueueUndo
     /\ Enqueue(services, IF userType = "normal" THEN "U1" ELSE OwnerId, userType)

UndoPrincipals == {OwnerId, "U1"}

UndoQueueAction ==
  \E id \in 1..MaxQueueUndo, action \in {"hold", "unhold", "add_time", "remove", "undo"},
     principal \in UndoPrincipals :
     /\ Counted(MaxOpsUndo)
     /\ QueueAction(id, action, IF action = "add_time" THEN 5 ELSE 0, principal, 0)

UndoRunTrigger == \E tr \in triggers : Counted(MaxOpsUndo) /\ RunTrigger(tr)

UndoElapse ==
  \E minutes \in {1, 4} : now + minutes <= MaxNowUndo /\ Elapse(minutes) /\ ops' = ops

NextUndo == UndoEnqueue \/ UndoQueueAction \/ UndoRunTrigger \/ UndoElapse

SpecUndo == InitBothCapable /\ [][NextUndo]_vars

\* ------------------------------------------------------ SpecRate
\* Ratings: customer U1 joins the lane of H1, the owner completes the entry
\* with next and may undo it, and /update-rating requests with rating 4 or 5
\* are handled, several of them at the same time.
RateRequests ==
  {<<[serviceId |-> "S1", preference |-> "SPECIFIC", helperId |-> "H1"]>>}

Ratings == {4, 5}

RateEnqueue ==
  \E services \in RateRequests :
     /\ Counted(MaxOpsRate)
     /\ Len(queues) < MaxQueueRate
     /\ Enqueue(services, "U1", "normal")

RateQueueAction ==
  \E id \in 1..MaxQueueRate, action \in {"next", "undo"} :
     /\ Counted(MaxOpsRate)
     /\ QueueAction(id, action, 0, OwnerId, 0)

RateRunTrigger == \E tr \in triggers : Counted(MaxOpsRate) /\ RunTrigger(tr)

RateUpdateRatingBegin ==
  \E id \in 1..MaxQueueRate, rating \in Ratings :
     Counted(MaxOpsRate) /\ UpdateRatingBegin(id, rating)

RateUpdateRatingReject ==
  \E id \in 1..MaxQueueRate : Counted(MaxOpsRate) /\ UpdateRatingReject(id)

RateUpdateRatingSave == \E w \in ratingWrites : Counted(MaxOpsRate) /\ UpdateRatingSave(w)

NextRate ==
  \/ RateEnqueue
  \/ RateQueueAction
  \/ RateRunTrigger
  \/ RateUpdateRatingBegin
  \/ RateUpdateRatingReject
  \/ RateUpdateRatingSave

SpecRate == InitBothCapable /\ [][NextRate]_vars

\* ------------------------------------------------------ SpecPush
\* Notifications: customer U1 joins, the owner applies skip, hold, next and
\* undo, sends helpers and the business on break and back, restructure runs
\* over every entry, and exp.host is reachable or not.
PushRequests ==
  {<<[serviceId |-> "S1", preference |-> "SPECIFIC", helperId |-> "H1"]>>}

PushEnqueue ==
  \E services \in PushRequests :
     /\ Counted(MaxOpsPush)
     /\ Len(queues) < MaxQueuePush
     /\ Enqueue(services, "U1", "normal")

PushQueueAction ==
  \E id \in 1..MaxQueuePush, action \in {"skip", "hold", "next", "undo"},
     other \in 0..MaxQueuePush :
     /\ Counted(MaxOpsPush)
     /\ QueueAction(id, action, 0, OwnerId, other)

PushRunTrigger == \E tr \in triggers : Counted(MaxOpsPush) /\ RunTrigger(tr)

PushRestructure == Counted(MaxOpsPush) /\ Restructure(1, Len(queues))

PushSetBreak == \E h \in HelperIds \cup {NoId} : Counted(MaxOpsPush) /\ SetBreak(h)

PushResumeBreak == \E h \in HelperIds \cup {NoId} : Counted(MaxOpsPush) /\ ResumeBreak(h)

PushSetBreakAlone ==
  \E h \in HelperIds : Counted(MaxOpsPush) /\ HelperBreakAlone("set-break", h, FALSE)

PushResumeBreakAlone ==
  \E h \in HelperIds : Counted(MaxOpsPush) /\ HelperBreakAlone("resume-break", h, TRUE)

PushExpoChange == ExpoChange /\ ops' = ops

NextPush ==
  \/ PushEnqueue
  \/ PushQueueAction
  \/ PushRunTrigger
  \/ PushRestructure
  \/ PushSetBreak
  \/ PushResumeBreak
  \/ PushSetBreakAlone
  \/ PushResumeBreakAlone
  \/ PushExpoChange

SpecPush == InitBothCapable /\ [][NextPush]_vars

\* ------------------------------------------------------ SpecSwap
\* Skips and their undo in one lane: the owner adds customers for H1 with
\* service S1 and applies hold, skip and undo, and the clock moves by one
\* minute.
SwapRequests ==
  {<<[serviceId |-> "S1", preference |-> "SPECIFIC", helperId |-> "H1"]>>}

SwapEnqueue ==
  \E services \in SwapRequests :
     /\ Counted(MaxOpsSwap)
     /\ Len(queues) < MaxQueueSwap
     /\ Enqueue(services, OwnerId, "manual")

SwapQueueAction ==
  \E id \in 1..MaxQueueSwap, action \in {"hold", "skip", "undo"}, other \in 0..MaxQueueSwap :
     /\ Counted(MaxOpsSwap)
     /\ QueueAction(id, action, 0, OwnerId, other)

SwapRunTrigger == \E tr \in triggers : Counted(MaxOpsSwap) /\ RunTrigger(tr)

SwapElapse == now + 1 <= MaxNowSwap /\ Elapse(1) /\ ops' = ops

NextSwap == SwapEnqueue \/ SwapQueueAction \/ SwapRunTrigger \/ SwapElapse

SpecSwap == InitBothCapable /\ [][NextSwap]_vars

\* ================================================================ claims
idle == triggers = {} /\ enqueueTxns = <<>> /\ resp.code # 0

lane(h) ==
  {i \in 1..Len(queues) : queues[i].helperId = h /\ queues[i].status \in LiveStatus}

lastEvent(q) == q.updateHistory[Len(q.updateHistory)]

RECURSIVE addedTimeSum(_, _)
addedTimeSum(history, k) ==
  IF k = 0 THEN 0 ELSE history[k].addedTime + addedTimeSum(history, k - 1)

\* C1: whenever no request is being handled, the live entries of every lane
\* have the positions 1..N, N the number of live entries of the lane.
C1_PositionsDense ==
  idle => \A h \in HelperIds :
            {queues[i].currentPosition : i \in lane(h)} = 1..Cardinality(lane(h))

\* C2: a committed enqueue of one line item puts the entry behind every live
\* entry its lane holds at the commit, the entries of a concurrent enqueue
\* included.
C2_EnqueueSerialized ==
  [][(resp'.op = "enqueue" /\ resp'.code = 201 /\ Len(queues') = Len(queues) + 1)
       => queues'[Len(queues')].currentPosition
            = countDocuments(queues, queues'[Len(queues')].helperId) + 1]_vars

\* C3: whenever no request is being handled, every live entry has
\* estimatedWait = (currentPosition - 1) * duration + the minutes added by
\* add_time and not undone.
C3_EtaConsistent ==
  idle => \A i \in 1..Len(queues) :
            queues[i].status \in LiveStatus =>
              queues[i].estimatedWait
                = (queues[i].currentPosition - 1) * duration[queues[i].serviceId]
                  + addedTimeSum(queues[i].updateHistory, Len(queues[i].updateHistory))

\* C4: an undo by the owner on an entry whose last event is a vendor action
\* of the last five minutes restores the status and the position the entry
\* had before that action, and (but for skip, whose event does not keep it)
\* the estimatedWait; the entry's history then holds the action and the undo.
C4_UndoSymmetry ==
  [][\A id \in 1..Len(queues), other \in 0..MaxQueue :
       LET q == queues[id]
       IN (/\ q.updateHistory # <<>>
           /\ lastEvent(q).source = "vendor"
           /\ lastEvent(q).action \in {"skip", "hold", "unhold", "remove", "next", "add_time"}
           /\ lastEvent(q).timestamp > now - UndoWindow
           /\ QueueAction(id, "undo", 0, OwnerId, other))
          => LET a == lastEvent(q)
                 q2 == queues'[id]
             IN /\ q2.status = CASE a.action \in {"hold", "remove", "next"} -> "in_queue"
                                 [] a.action = "unhold" -> "hold"
                                 [] OTHER -> q.status
                /\ q2.currentPosition = a.previousPosition
                /\ a.action # "skip" => q2.estimatedWait = a.estimatedWait - a.addedTime
                /\ Len(q2.updateHistory) > Len(q.updateHistory)
                /\ q2.updateHistory[Len(q.updateHistory)] = a
                /\ lastEvent(q2).action = "undo"]_vars

\* C5: a restructure that follows a successful restructure of the same
\* window, with nothing done in between, changes no entry.
C5_RestructureIdempotent ==
  [][(/\ resp.op = "restructure" /\ resp.code = 200
      /\ Restructure(1, Len(queues)))
       => resp'.updatedCount = 0 /\ queues' = queues]_vars

\* C6: a completed entry keeps its status, currentPosition and estimatedWait.
C6_CompletedImmutable ==
  [][\A id \in 1..Len(queues) :
       queues[id].status = "completed"
         => /\ queues'[id].status = "completed"
            /\ queues'[id].currentPosition = queues[id].currentPosition
            /\ queues'[id].estimatedWait = queues[id].estimatedWait]_vars

\* C7: a removed entry never changes again, and every queue-action on it is
\* rejected and changes no entry.
C7_RemovedTerminal ==
  [][\A id \in 1..Len(queues) :
       queues[id].status = "removed"
         => /\ queues'[id] = queues[id]
            /\ \A action \in Actions, principal \in ActPrincipals, other \in 0..MaxQueue :
                 QueueAction(id, action, IF action = "add_time" THEN 5 ELSE 0, principal, other)
                   => resp'.code = 500 /\ queues' = queues]_vars

\* C8: an entry becomes completed only from currentPosition 1, and next on
\* an entry at another position is rejected and changes no entry.
C8_HeadCompletion ==
  [][\A id \in 1..Len(queues) :
       /\ (queues[id].status # "completed" /\ queues'[id].status = "completed")
            => queues[id].currentPosition = 1
       /\ \A principal \in ActPrincipals :
            (queues[id].currentPosition # 1 /\ QueueAction(id, "next", 0, principal, 0))
              => resp'.code = 500 /\ queues' = queues]_vars

\* C8 witness: the head of a lane was completed, the entry behind it waits
\* at position 2, and the last queue-action was rejected.
C8_Witness ==
  \E i, j \in 1..Len(queues) :
     /\ queues[i].status = "completed" /\ lastEvent(queues[i]).action = "next"
     /\ queues[j].helperId = queues[i].helperId
     /\ queues[j].status = "in_queue" /\ queues[j].currentPosition = 2
     /\ resp = response("queue-action", 500, 0)

\* C9: a queue-action of a principal who is neither the owner nor an
\* accepted, active helper changes an entry only when it is remove on the
\* principal's own entry.
C9_CustomerOnlyRemovesOwn ==
  [][\/ resp'.op # "queue-action"
     \/ queues' = queues /\ resp'.code = 500
     \/ \A id \in 1..Len(queues), action \in Actions, principal \in ActPrincipals,
           other \in 0..Len(queues) :
          (/\ ~isOwner(principal) /\ ~isHelper(vendor, principal)
           /\ QueueAction(id, action, IF action = "add_time" THEN 5 ELSE 0, principal, other))
            => action = "remove" /\ queues[id].userId = principal]_vars

\* C9 witness: a customer removed the own entry.
C9_Witness ==
  \E i \in 1..Len(queues) :
     /\ queues[i].status = "removed"
     /\ lastEvent(queues[i]).action = "remove" /\ lastEvent(queues[i]).source = "user"

\* C10: a committed enqueue inserts one entry for each line item of its
\* request; a request that is not committed, or that throws, inserts none.
C10_EnqueueAllOrNothing ==
  [][/\ \A t \in 1..Len(enqueueTxns) :
          EnqueueCommit(t) => Len(queues') = Len(queues) + enqueueTxns[t].items
     /\ (resp'.op = "enqueue" /\ resp'.code # 201) => queues' = queues
     /\ (resp'.op = "enqueue" /\ resp'.code = 0)
          => LET txn == enqueueTxns'[Len(enqueueTxns')]
             IN Len(txn.entries) = txn.items]_vars

\* C10 witness: a request of two line items was committed, and a request
\* with a failing line item was answered 500 leaving the two entries.
C10_Witness ==
  /\ ops = 3 /\ Len(queues) = 2 /\ enqueueTxns = <<>>
  /\ resp = response("enqueue", 500, 0)

\* the helper's record in vendor.connectedHelpers is accepted and active
acceptedActive(v, h) ==
  \E k \in 1..Len(v.connectedHelpers) :
     /\ v.connectedHelpers[k].helperId = h
     /\ v.connectedHelpers[k].status = "accepted"
     /\ v.connectedHelpers[k].active

\* ... and its associatedServices hold the service
capable(v, h, serviceId) ==
  \E k \in 1..Len(v.connectedHelpers) :
     /\ v.connectedHelpers[k].helperId = h
     /\ v.connectedHelpers[k].status = "accepted"
     /\ v.connectedHelpers[k].active
     /\ serviceId \in v.connectedHelpers[k].associatedServices

\* C11: the entry built for line item k of a request has joiningPosition =
\* currentPosition = n + 1, estimatedWait = n * duration and status in_queue,
\* n being the live entries of its lane in the transaction's view plus the
\* entries of the earlier line items of the request in that lane.
C11_EnqueuePositions ==
  [][(resp'.op = "enqueue" /\ resp'.code = 0)
       => LET entries == enqueueTxns'[Len(enqueueTxns')].entries
          IN \A k \in 1..Len(entries) :
               LET e == entries[k]
                   n == countDocuments(queues, e.helperId)
                        + Cardinality({j \in 1..(k - 1) : entries[j].helperId = e.helperId})
               IN /\ e.joiningPosition = n + 1
                  /\ e.currentPosition = n + 1
                  /\ e.estimatedWait = n * duration[e.serviceId]
                  /\ e.status = "in_queue"]_vars

\* C13: every entry an enqueue builds for a SPECIFIC line item is on a helper
\* that is accepted and active and has the entry's service in its services.
C13_SpecificCapable ==
  [][(resp'.op = "enqueue" /\ resp'.code = 0)
       => LET entries == enqueueTxns'[Len(enqueueTxns')].entries
          IN \A k \in 1..Len(entries) :
               entries[k].preference = "SPECIFIC"
                 => capable(vendor, entries[k].helperId, entries[k].serviceId)]_vars

\* C12: a committed enqueue of one ANY line item puts the entry on a helper
\* that is accepted, active and capable of the service, whose lane has the
\* fewest live entries, and of these the one with the smallest helperId.
C12_AnyFewestSmallestId ==
  [][(/\ resp'.op = "enqueue" /\ resp'.code = 201
      /\ Len(queues') = Len(queues) + 1
      /\ queues'[Len(queues')].preference = "ANY")
       => LET new == queues'[Len(queues')]
              rank == [h \in HelperIds |-> IF h = "H1" THEN 1 ELSE 2]
              cand == {h \in HelperIds : capable(vendor, h, new.serviceId)}
              fewest == {h \in cand : \A g \in cand :
                           countDocuments(queues, h) <= countDocuments(queues, g)}
          IN /\ new.helperId \in fewest
             /\ \A g \in fewest : rank[new.helperId] <= rank[g]]_vars

\* C14: after a restructure over the window of all entries that answers 200,
\* every live entry whose service has an accepted, active, capable helper is
\* on such a helper.
C14_RestructureValidHelper ==
  [][(Restructure(1, Len(queues)) /\ resp'.code = 200)
       => \A i \in 1..Len(queues') :
            (/\ queues'[i].status \in LiveStatus
             /\ \E h \in HelperIds : capable(vendor, h, queues'[i].serviceId))
              => capable(vendor, queues'[i].helperId, queues'[i].serviceId)]_vars

\* C14 witness: a restructure moved an entry off a helper that is on break.
C14_Witness ==
  /\ resp.op = "restructure" /\ resp.code = 200 /\ resp.updatedCount > 0
  /\ \E i \in 1..Len(queues), h \in HelperIds :
        /\ ~acceptedActive(vendor, h)
        /\ queues[i].status \in LiveStatus
        /\ queues[i].updateHistory # <<>>
        /\ lastEvent(queues[i]).action = "edit"
        /\ lastEvent(queues[i]).newlyAssignedHelperId \in HelperIds \ {h}
        /\ queues[i].helperId = lastEvent(queues[i]).newlyAssignedHelperId

\* C15: whenever no request is being handled, every live SPECIFIC entry of
\* service S1 is on the helper its request named (H1 in every SPECIFIC
\* request for S1 of BalRequests) if that helper is accepted and active.
C15_SpecificPinned ==
  idle => \A i \in 1..Len(queues) :
            (/\ queues[i].status \in LiveStatus
             /\ queues[i].preference = "SPECIFIC" /\ queues[i].serviceId = "S1"
             /\ acceptedActive(vendor, "H1"))
              => queues[i].helperId = "H1"

\* C19: when the restructure posted by a set-break has run and answered 200,
\* no live entry is left on a helper on break while another helper is
\* accepted, active and capable of its service, and every entry it moved has
\* an edit event that names the new helper.
C19_BreakMovesEntries ==
  [][\A tr \in triggers :
       (tr.from = "set-break" /\ RunTrigger(tr) /\ resp'.code = 200)
         => \A i \in 1..Len(queues) :
              (/\ queues[i].status \in LiveStatus
               /\ ~acceptedActive(vendor, queues[i].helperId)
               /\ \E h \in HelperIds : capable(vendor, h, queues[i].serviceId))
                => /\ capable(vendor, queues'[i].helperId, queues'[i].serviceId)
                   /\ lastEvent(queues'[i]).action = "edit"
                   /\ lastEvent(queues'[i]).newlyAssignedHelperId = queues'[i].helperId]_vars

\* C16: no step changes the joiningPosition of an entry.
C16_JoiningPositionFixed ==
  [][\A id \in 1..Len(queues) :
       queues'[id].joiningPosition = queues[id].joiningPosition]_vars

\* C16 witness: an entry that a restructure moved to another position and,
\* after a break of its helper, to another helper still has the position it
\* joined at.
C16_Witness ==
  \E i \in 1..Len(queues), k \in 1..MaxOps :
     /\ k <= Len(queues[i].updateHistory)
     /\ queues[i].updateHistory[k].action = "edit"
     /\ queues[i].updateHistory[k].newlyAssignedHelperId # NoId
     /\ queues[i].currentPosition # queues[i].joiningPosition

\* the lanes hold SPECIFIC entries of H1 only, at the positions 1..n with no
\* minutes added, the head in_queue
pinnedLane ==
  /\ \A i \in 1..Len(queues) :
        queues[i].status \in LiveStatus
          => /\ queues[i].helperId = "H1" /\ queues[i].preference = "SPECIFIC"
             /\ queues[i].estimatedWait
                  = (queues[i].currentPosition - 1) * duration[queues[i].serviceId]
             /\ queues[i].currentPosition = 1 => queues[i].status = "in_queue"
  /\ {queues[i].currentPosition : i \in lane("H1")} = 1..Cardinality(lane("H1"))

\* C18: in a lane of H1 with positions 1..n and an entry on hold behind the
\* head, a restructure over the window of all entries that answers 200
\* changes no entry's currentPosition or estimatedWait.
C18_HoldKeepsPosition ==
  [][(/\ pinnedLane
      /\ acceptedActive(vendor, "H1")
      /\ \E i \in lane("H1") : queues[i].status = "hold"
      /\ Restructure(1, Len(queues)) /\ resp'.code = 200)
       => \A i \in 1..Len(queues) :
            /\ queues'[i].currentPosition = queues[i].currentPosition
            /\ queues'[i].estimatedWait = queues[i].estimatedWait]_vars

\* C20: when next completed the head of a lane and the restructure it posted
\* has run, the entry that was second in the lane is at currentPosition 1.
C20_NextPromotesSecond ==
  [][\A tr \in triggers, i \in 1..Len(queues), j \in 1..Len(queues) :
       (/\ triggers = {tr} /\ tr.from = "queue-action"
        /\ resp = response("queue-action", 0, 0)
        /\ queues[i].status = "completed"
        /\ lastEvent(queues[i]).action = "next" /\ queues[i].currentPosition = 1
        /\ queues[j].helperId = queues[i].helperId
        /\ queues[j].status = "in_queue" /\ queues[j].currentPosition = 2
        /\ queues[j].updateHistory = <<>>
        /\ RunTrigger(tr))
         => queues'[j].currentPosition = 1]_vars

\* C17: a skip by the owner on an in_queue entry that is answered 200 swaps
\* the entry's currentPosition with that of the nearest in_queue entry
\* behind it in the lane, sets estimatedWait of each of the two to
\* (currentPosition - 1) * duration of its service, and leaves position,
\* status and estimatedWait of every other entry.
C17_SkipSwapsTwo ==
  [][\A id \in 1..Len(queues), other \in 1..Len(queues) :
       (/\ queues[id].status = "in_queue"
        /\ QueueAction(id, "skip", 0, OwnerId, other)
        /\ resp'.code = 200)
         => /\ queues[other].helperId = queues[id].helperId
            /\ queues[other].status = "in_queue"
            /\ queues[other].currentPosition > queues[id].currentPosition
            /\ \A k \in 1..Len(queues) :
                 (/\ queues[k].helperId = queues[id].helperId
                  /\ queues[k].status = "in_queue"
                  /\ queues[k].currentPosition > queues[id].currentPosition)
                   => queues[k].currentPosition >= queues[other].currentPosition
            /\ queues'[id].currentPosition = queues[other].currentPosition
            /\ queues'[other].currentPosition = queues[id].currentPosition
            /\ \A k \in {id, other} :
                 /\ queues'[k].status = "in_queue"
                 /\ queues'[k].estimatedWait
                      = (queues'[k].currentPosition - 1) * duration[queues'[k].serviceId]
            /\ \A k \in 1..Len(queues) \ {id, other} :
                 /\ queues'[k].currentPosition = queues[k].currentPosition
                 /\ queues'[k].status = queues[k].status
                 /\ queues'[k].estimatedWait = queues[k].estimatedWait]_vars

\* C21: a hold that a customer posts on the own entry is answered 403 and
\* changes no entry; a remove that the same customer posts on the same entry
\* sets the entry's status to removed.
C21_CustomerHoldForbidden ==
  [][\/ resp'.op # "queue-action"
     \/ \A id \in 1..Len(queues), p \in UserIds :
          (queues[id].userId = p /\ queues[id].status # "removed")
            => /\ QueueAction(id, "hold", 0, p, 0)
                    => (resp'.code = 403 /\ queues' = queues)
               /\ QueueAction(id, "remove", 0, p, 0)
                    => queues'[id].status = "removed"]_vars

\* C25: an undo by the owner on an entry whose last event is a remove by the
\* vendor, less than five minutes old, sets the entry's status to in_queue
\* and appends an undo event to its history.
C25_UndoRemoveRestores ==
  [][\/ resp'.op # "queue-action"
     \/ \A id \in 1..Len(queues) :
          (/\ queues[id].status = "removed"
           /\ lastEvent(queues[id]).action = "remove"
           /\ lastEvent(queues[id]).source = "vendor"
           /\ lastEvent(queues[id]).timestamp > now - UndoWindow
           /\ QueueAction(id, "undo", 0, OwnerId, 0))
            => /\ queues'[id].status = "in_queue"
               /\ Len(queues'[id].updateHistory) = Len(queues[id].updateHistory) + 1
               /\ lastEvent(queues'[id]).action = "undo"]_vars

\* C26: an undo is rejected and changes no entry when the entry's history
\* holds no vendor-sourced event or when its last vendor-sourced event is an
\* undo; an undo that changes an entry inverts the last vendor-sourced event
\* of the history, which is no undo.
C26_UndoOnlyVendorOnce ==
  [][\/ resp'.op # "queue-action"
     \/ resp'.code = 500 /\ queues' = queues
     \/ \A id \in 1..Len(queues), principal \in ActPrincipals, other \in 0..MaxQueue :
          LET h == queues[id].updateHistory
              vend == {k \in 1..Len(h) : h[k].source = "vendor"}
              last == CHOOSE k \in vend : \A j \in vend : j <= k
          IN QueueAction(id, "undo", 0, principal, other)
               => /\ vend # {}
                  /\ h[last].action \in {"skip", "hold", "unhold", "remove", "next", "add_time"}
                  /\ queues'[id].status
                       = CASE h[last].action \in {"hold", "remove", "next"} -> "in_queue"
                           [] h[last].action = "unhold" -> "hold"
                           [] OTHER -> queues[id].status
                  /\ lastEvent(queues'[id]).action = "undo"
                  /\ lastEvent(queues'[id]).source = "vendor"]_vars

\* C26 witness: a second undo on an entry whose last event is an undo was
\* rejected.
C26_Witness ==
  /\ resp = response("queue-action", 500, 0)
  /\ Len(queues) = 1
  /\ Len(queues[1].updateHistory) = 2
  /\ queues[1].updateHistory[1].action = "hold"
  /\ queues[1].updateHistory[2].action = "undo"
  /\ queues[1].status = "in_queue"

\* C27: an undo changes an entry only when the entry's history holds a
\* vendor-sourced event less than five minutes old; when it holds none, the
\* undo is rejected and the entry (status, currentPosition, estimatedWait,
\* updateHistory) is as before.
C27_UndoWindow ==
  [][\/ resp'.op # "queue-action"
     \/ \A id \in 1..Len(queues), principal \in UndoPrincipals :
          LET h == queues[id].updateHistory
              inWindow == {k \in 1..Len(h) :
                             h[k].source = "vendor" /\ now - h[k].timestamp < UndoWindow}
          IN QueueAction(id, "undo", 0, principal, 0)
               => /\ inWindow = {} => (resp'.code = 500 /\ queues' = queues)
                  /\ queues' # queues => inWindow # {}]_vars

\* C27 witness: the owner's request on a held entry whose only event, the
\* hold, is five minutes old or older was rejected.
C27_Witness ==
  /\ resp = response("queue-action", 500, 0)
  /\ Len(queues) = 1
  /\ queues[1].status = "hold"
  /\ Len(queues[1].updateHistory) = 1
  /\ now - queues[1].updateHistory[1].timestamp >= UndoWindow

\* C28: a skip, hold, unhold, remove, next or add_time of the owner that
\* changed an entry has posted a restructure, which is pending when the
\* action's step is done.
C28_ActionTriggersRestructure ==
  [][\/ resp'.op # "queue-action"
     \/ queues' = queues
     \/ \A id \in 1..Len(queues), other \in 0..MaxQueueLane,
           action \in {"skip", "hold", "unhold", "remove", "next", "add_time"} :
          QueueAction(id, action, IF action = "add_time" THEN 5 ELSE 0, OwnerId, other)
            => (\E tr \in triggers' : tr.from = "queue-action")]_vars

\* C29: a resume-break that is answered with success, for the business or
\* for one helper, has run a restructure after the active flag was set.
C29_ResumeTriggersRestructure ==
  [][(resp'.op = "resume-break" /\ resp'.code = 200)
       => (\E tr \in triggers : tr.from = "resume-break" /\ RunTrigger(tr))]_vars

\* C30: a rating is written only to an entry that has none: the rating of an
\* entry, once written, is never replaced, also when several /update-rating
\* requests for the entry are handled at the same time.
C30_RatingOnce ==
  [][\A id \in 1..Len(queues) :
       queues[id].rating # <<>> => queues'[id].rating = queues[id].rating]_vars

\* C22: a step of enqueue, queue-action, restructure, set-break or
\* resume-break that answers with an error status leaves the business
\* record, the helpers' active flags and every queue entry as they were.
C22_ErrorLeavesState ==
  [][(resp' # resp /\ resp'.code >= 400) => (vendor' = vendor /\ queues' = queues)]_vars

\* C23: no handler posts a push message while its transaction is started
\* and not committed.
C23_PushAfterCommit == push.op # "none" => push.session # "open"

\* C24: a handler whose post to exp.host failed does not answer 500.
C24_PushFailureNoError ==
  [][(push'.op # "none" /\ push'.op = resp'.op /\ ~push'.delivered)
       => resp'.code # 500]_vars

\* C31: next by the owner on an entry at currentPosition 1 whose status is
\* hold or skipped is rejected, and the entry does not become completed.
C31_NextNeedsInQueue ==
  [][\/ resp'.op # "queue-action"
     \/ \A id \in 1..Len(queues) :
          (/\ queues[id].currentPosition = 1
           /\ queues[id].status \in {"hold", "skipped"}
           /\ QueueAction(id, "next", 0, OwnerId, 0))
            => queues' = queues /\ resp'.code = 500]_vars

\* C32: skip by the owner on an entry whose status is hold, skipped or
\* completed is rejected, and no entry's currentPosition changes.
C32_SkipNeedsInQueue ==
  [][\/ resp'.op # "queue-action"
     \/ \A id \in 1..Len(queues), other \in 0..Len(queues) :
          (/\ queues[id].status \in {"hold", "skipped", "completed"}
           /\ QueueAction(id, "skip", 0, OwnerId, other))
            => /\ resp'.code = 500
               /\ \A k \in 1..Len(queues) :
                    queues'[k].currentPosition = queues[k].currentPosition]_vars

\* C33: a restructure of a business that is inactive, or that has no
\* accepted, active helper, changes no queue entry; with the business active
\* and no such helper it is answered with success.
C33_RestructureGate ==
  [][\/ resp'.op # "restructure"
     \/ (/\ ~vendor.active \/ \A h \in HelperIds : ~acceptedActive(vendor, h)
         /\ Restructure(1, Len(queues)))
          => /\ queues' = queues
             /\ vendor.active => resp'.code = 200]_vars

\* C34: the skip events that a skip answered 200 appends to the two swapped
\* entries hold, each, the entry's currentPosition before the swap as
\* previousPosition and its currentPosition after the swap as newPosition.
C34_SkipEventPositions ==
  [][\/ resp'.op # "queue-action"
     \/ \A id \in 1..Len(queues), other \in 1..Len(queues) :
          (QueueAction(id, "skip", 0, OwnerId, other) /\ resp'.code = 200)
            => \A k \in {id, other} :
                 /\ lastEvent(queues'[k]).action = "skip"
                 /\ lastEvent(queues'[k]).previousPosition = queues[k].currentPosition
                 /\ lastEvent(queues'[k]).newPosition = queues'[k].currentPosition]_vars

\* C35: an undo by the owner of an entry's skip moves, besides the entry,
\* only the entry's counterpart of that skip, the entry whose history holds
\* the skip event of the same moment with the entry's former position as
\* newPosition; an undo that is rejected changes no position.
C35_UndoSkipCounterpart ==
  [][\/ resp'.op # "queue-action"
     \/ \A id \in 1..Len(queues), other \in 0..Len(queues) :
          LET recent == recentActions(queues[id], now)
              a == recent[Len(recent)]
          IN (/\ recent # <<>> /\ a.action = "skip"
              /\ QueueAction(id, "undo", 0, OwnerId, other))
               => \A k \in 1..Len(queues) \ {id} :
                    queues'[k].currentPosition # queues[k].currentPosition
                      => \E e \in 1..Len(queues[k].updateHistory) :
                            /\ queues[k].updateHistory[e].action = "skip"
                            /\ queues[k].updateHistory[e].timestamp = a.timestamp
                            /\ queues[k].updateHistory[e].newPosition = a.previousPosition]_vars

\* the live entries of every lane have pairwise different positions
positionsDistinct(qs) ==
  \A i, j \in 1..Len(qs) :
     (/\ i # j /\ qs[i].helperId = qs[j].helperId
      /\ qs[i].status \in LiveStatus /\ qs[j].status \in LiveStatus)
       => qs[i].currentPosition # qs[j].currentPosition

\* C36: when a queue-action commits and posts its restructure in a state in
\* which the live entries of every lane have different positions, they have
\* different positions also in the state it leaves for that restructure.
C36_DistinctBeforeRestructure ==
  [][(/\ resp'.op = "queue-action" /\ resp'.code = 0 /\ queues' # queues
      /\ positionsDistinct(queues))
       => positionsDistinct(queues')]_vars

\* C37: when the last two events of an entry are a hold, unhold or add_time
\* by the vendor and, after it, an edit of a restructure, both less than
\* five minutes old, an undo by the owner is not rejected: it appends an
\* undo event and restores the status the entry had before that action.
C37_UndoSkipsEdit ==
  [][\/ resp'.op # "queue-action"
     \/ \A id \in 1..Len(queues) :
          LET h == queues[id].updateHistory
              n == Len(h)
          IN (/\ n >= 2
              /\ h[n].action = "edit"
              /\ h[n - 1].action \in {"hold", "unhold", "add_time"}
              /\ h[n - 1].source = "vendor"
              /\ h[n - 1].timestamp > now - UndoWindow
              /\ queues[id].status # "removed"
              /\ QueueAction(id, "undo", 0, OwnerId, 0))
               => /\ lastEvent(queues'[id]).action = "undo"
                  /\ queues'[id].status
                       = CASE h[n - 1].action = "hold" -> "in_queue"
                           [] h[n - 1].action = "unhold" -> "hold"
                           [] OTHER -> queues[id].status]_vars

C39_WaitTimesAgreeWithEnqueue ==
  vendor.active =>
    \A w \in helperWaitTimes(queues, vendor) :
       w.estimatedWait
         = queueEntry(queues, vendor,
                      [serviceId |-> w.serviceId, preference |-> "SPECIFIC",
                       helperId |-> w.helperId],
                      OwnerId, "manual").estimatedWait

\* C40: estimatedWait of every queue entry is at least 0.
C40_WaitNonNegative == \A i \in 1..Len(queues) : queues[i].estimatedWait >= 0

\* C40 witness: a restructure has set the estimatedWait of an entry with
\* added time back to 0, and a request on the entry was then rejected.
C40_Witness ==
  /\ resp = response("queue-action", 500, 0)
  /\ Len(queues) = 1
  /\ Len(queues[1].updateHistory) = 2
  /\ queues[1].updateHistory[1].action = "add_time"
  /\ queues[1].updateHistory[2].action = "edit"
  /\ queues[1].estimatedWait = 0
====
